---- MODULE Spec2Model ----
(***************************************************************************)
(* Model of src/telemetry_system.py: the telemetry collector, the          *)
(* ChatGPT analysis client and the command-line entry point.               *)
(*                                                                         *)
(* Text is a sequence of one-character strings.  A Python value is a       *)
(* record tagged by its type: [t |-> "null"], [t |-> "num", v |-> n],      *)
(* [t |-> "str", v |-> text], [t |-> "list", v |-> sequence],              *)
(* [t |-> "obj", v |-> function from keys to values].                      *)
(***************************************************************************)
EXTENDS Integers, Sequences, FiniteSets, TLC

VARIABLES
    pc,          \* position of main(): start, collect, branch, analyzed, done, raised
    args,        \* the parsed command line: collect_only, api_key (given or not)
    host,        \* the operating-system facilities collect() reads
    snapshot,    \* TelemetrySnapshot.data, or NoSnapshot
    collects,    \* number of TelemetryCollector.collect() passes
    requests,    \* number of urlopen() calls
    net,         \* outcome of the HTTP exchange, or NoExchange
    result,      \* what analyze() returned, or NoResult
    exc,         \* the exception that left main(), or NoExc
    stdout,      \* what main() printed
    exit_code,   \* main()'s return value, or NoExit
    kv_file,     \* _parse_key_value_file: the file at its path argument
    kv_parsed,   \* _parse_key_value_file: returned mapping, or NotRun
    response_json, \* _extract_message: its argument
    extracted    \* _extract_message: its outcome, or NotRun

vars == <<pc, args, host, snapshot, collects, requests, net, result, exc,
          stdout, exit_code, kv_file, kv_parsed, response_json, extracted>>

mainVars == <<pc, args, host, snapshot, collects, requests, net, result, exc,
              stdout, exit_code>>

parseVars == <<kv_file, kv_parsed>>

extractVars == <<response_json, extracted>>

\* ------------------------------------------------------------------ bounds
MaxFileLen == 6
MaxChoices == 2
MaxBodyLen == 2

\* ------------------------------------------------------------ Python values
None == [t |-> "null"]

Num(n) == [t |-> "num", v |-> n]

Str(s) == [t |-> "str", v |-> s]

List(s) == [t |-> "list", v |-> s]

Obj(f) == [t |-> "obj", v |-> f]

EmptyDict == [k \in {} |-> None]

NotRun == [t |-> "not_run"]

\* how a call ends: it returns a value or raises an exception
Returned(value) == [kind |-> "return", value |-> value]

Raised(kind, msg) == [kind |-> "raise", exc |-> kind, msg |-> msg]

\* dict.update(other) / parsed[key] = value: keys of other replace keys of base
DictUpdate(base, other) ==
    [k \in (DOMAIN base) \cup (DOMAIN other) |->
        IF k \in DOMAIN other THEN other[k] ELSE base[k]]

\* --------------------------------------------------------------------- text
\* str.strip() with no argument removes leading and trailing whitespace
IsSpace(c) == c \in {" ", "\n", "\t", "\r"}

RECURSIVE LStrip(_)
LStrip(s) ==
    IF s = <<>> THEN <<>>
    ELSE IF IsSpace(Head(s)) THEN LStrip(Tail(s))
    ELSE s

RECURSIVE RStrip(_)
RStrip(s) ==
    IF s = <<>> THEN <<>>
    ELSE IF IsSpace(s[Len(s)]) THEN RStrip(SubSeq(s, 1, Len(s) - 1))
    ELSE s

Strip(s) == RStrip(LStrip(s))

\* iterating a text file yields its lines, each with its line ending
RECURSIVE FileLines(_, _)
FileLines(text, line) ==
    IF text = <<>> THEN (IF line = <<>> THEN <<>> ELSE <<line>>)
    ELSE IF Head(text) = "\n" THEN <<Append(line, "\n")>> \o FileLines(Tail(text), <<>>)
    ELSE FileLines(Tail(text), Append(line, Head(text)))

\* ":" in line
HasColon(line) == \E i \in 1..Len(line) : line[i] = ":"

FirstColon(line) ==
    CHOOSE i \in 1..Len(line) :
        line[i] = ":" /\ \A j \in 1..(i - 1) : line[j] # ":"

LastColon(line) ==
    CHOOSE i \in 1..Len(line) :
        line[i] = ":" /\ \A j \in (i + 1)..Len(line) : line[j] # ":"

\* line.split(":", 1)
SplitLast(line) ==
    <<SubSeq(line, 1, LastColon(line) - 1),
      SubSeq(line, LastColon(line) + 1, Len(line))>>

SplitColon(line) ==
    <<SubSeq(line, 1, FirstColon(line) - 1),
      SubSeq(line, FirstColon(line) + 1, Len(line))>>

\* the body of the "for line in handle" loop, applied to the lines in order
RECURSIVE ParseLines(_, _)
ParseLines(lines, parsed) ==
    IF lines = <<>> THEN parsed
    ELSE LET line == Head(lines) IN
         IF Strip(line) = <<>> THEN ParseLines(Tail(lines), parsed)
         ELSE IF ~HasColon(line) THEN ParseLines(Tail(lines), parsed)
         ELSE LET kv == SplitColon(line)
                  key == Strip(kv[1])
                  value == Strip(kv[2])
              IN ParseLines(Tail(lines),
                            DictUpdate(parsed, [k \in {key} |-> Str(value)]))

\* what open() and the decoding of the file can end in; the first two are
\* OSError subclasses, UnicodeDecodeError is a ValueError
OSErrors == {"FileNotFoundError", "PermissionError"}

OpenOutcomes == {"ok", "UnicodeDecodeError"} \cup OSErrors

\* _parse_key_value_file(path): "except OSError" absorbs only OSError
_parse_key_value_file(file) ==
    CASE file.open = "ok" ->
            Returned(ParseLines(FileLines(file.text, <<>>), EmptyDict))
      [] file.open \in OSErrors -> Returned(EmptyDict)
      [] OTHER -> Raised(file.open, <<>>)

\* ------------------------------------------------------- _extract_message
\* Mapping.get(key): the value, or None when the key is missing
Get(obj, key) == IF key \in DOMAIN obj.v THEN obj.v[key] ELSE None

\* isinstance(x, Mapping)
IsMapping(x) == x.t = "obj"

\* isinstance(x, Iterable): lists, strings and dicts are, numbers and None are not
IsIterable(x) == x.t \in {"list", "str", "obj"}

RECURSIVE KeysSeq(_)
KeysSeq(keys) ==
    IF keys = {} THEN <<>>
    ELSE LET k == CHOOSE x \in keys : TRUE
         IN <<Str(<<k>>)>> \o KeysSeq(keys \ {k})

\* what "for choice in choices" yields: the items of a list, the characters
\* of a string, the keys of a dict (each key a string, held as one chunk)
Items(x) ==
    CASE x.t = "list" -> x.v
      [] x.t = "str" -> [i \in 1..Len(x.v) |-> Str(<<x.v[i]>>)]
      [] x.t = "obj" -> KeysSeq(DOMAIN x.v)

\* the for loop of _extract_message
RECURSIVE FirstContent(_)
FirstContent(choices) ==
    IF choices = <<>> THEN <<>>
    ELSE LET choice == Head(choices)
             message == IF IsMapping(choice) THEN Get(choice, "message") ELSE None
         IN IF IsMapping(message) /\ Get(message, "content").t = "str"
            THEN Strip(Get(message, "content").v)
            ELSE FirstContent(Tail(choices))

_extract_message(json) ==
    IF ~IsMapping(json) THEN Raised("AttributeError", <<>>)
    ELSE LET choices == Get(json, "choices")
         IN IF ~IsIterable(choices) THEN Returned(<<>>)
            ELSE Returned(FirstContent(Items(choices)))

\* ------------------------------------------- decoded response bodies (inputs)
Contents ==
    {None, Num(3), Str(<<>>), Str(<<" ">>), Str(<<" ", "h", "i", " ">>),
     Str(<<"o", "k">>)}

Messages ==
    {Str(<<"m">>), Obj(EmptyDict)} \cup {Obj([content |-> c]) : c \in Contents}

Choices ==
    {Num(1), Obj(EmptyDict)} \cup {Obj([message |-> m]) : m \in Messages}

ChoiceLists == UNION {[1..n -> Choices] : n \in 0..MaxChoices}

Responses ==
    {None, Num(1), Str(<<"s">>), List(<<>>), Obj(EmptyDict)}
    \cup {Obj([choices |-> c]) :
            c \in {None, Num(3), Str(<<"a", "b">>), Obj([k |-> Num(1)])}}
    \cup {Obj([choices |-> List(l)]) : l \in ChoiceLists}

\* ------------------------------------------------------ TelemetryCollector
K_pid ==
    <<"p", "i", "d">>

K_cpu_time_user ==
    <<"c", "p", "u", "_", "t", "i", "m", "e", "_", "u", "s", "e", "r">>

K_cpu_time_system ==
    <<"c", "p", "u", "_", "t", "i", "m", "e", "_", "s", "y", "s", "t", "e",
      "m">>

K_cpu_time_children_user ==
    <<"c", "p", "u", "_", "t", "i", "m", "e", "_", "c", "h", "i", "l", "d",
      "r", "e", "n", "_", "u", "s", "e", "r">>

K_cpu_time_children_system ==
    <<"c", "p", "u", "_", "t", "i", "m", "e", "_", "c", "h", "i", "l", "d",
      "r", "e", "n", "_", "s", "y", "s", "t", "e", "m">>

K_elapsed ==
    <<"e", "l", "a", "p", "s", "e", "d">>

\* the fixed fields of _process_info, read from os.getpid() and os.times()
FixedProcessInfo(h) ==
    (K_pid :> Num(h.pid))
    @@ (K_cpu_time_user :> Num(h.times.user))
    @@ (K_cpu_time_system :> Num(h.times.system))
    @@ (K_cpu_time_children_user :> Num(h.times.children_user))
    @@ (K_cpu_time_children_system :> Num(h.times.children_system))
    @@ (K_elapsed :> Num(h.times.elapsed))

_platform_info(h) == Returned(Obj(h.platform))

\* hasattr(os, "getloadavg"); os.getloadavg() raises OSError when the load
\* average is unobtainable
_load_average(h) ==
    CASE h.getloadavg = "absent" -> Returned(None)
      [] h.getloadavg = "OSError" -> Raised("OSError", <<>>)
      [] OTHER -> Returned(Obj(("1min" :> Num(h.load[1]))
                               @@ ("5min" :> Num(h.load[2]))
                               @@ ("15min" :> Num(h.load[3]))))

\* info.update(self._parse_key_value_file(path)) under os.path.exists(path)
UpdateFromFile(info, file) ==
    IF ~file.exists THEN Returned(Obj(info))
    ELSE LET parsed == _parse_key_value_file(file)
         IN IF parsed.kind = "raise" THEN parsed
            ELSE Returned(Obj(DictUpdate(info, parsed.value)))

_memory_info(h) == UpdateFromFile(EmptyDict, h.meminfo)

_process_info(h) == UpdateFromFile(FixedProcessInfo(h), h.status)

\* collect(): the dict display evaluates its values in order, and the first
\* exception leaves collect()
collect(h) ==
    LET platform == _platform_info(h)
        load == _load_average(h)
        memory == _memory_info(h)
        process == _process_info(h)
    IN CASE load.kind = "raise" -> load
         [] memory.kind = "raise" -> memory
         [] process.kind = "raise" -> process
         [] OTHER -> Returned([timestamp |-> Num(h.time),
                               platform |-> platform.value,
                               load_average |-> load.value,
                               memory |-> memory.value,
                               process |-> process.value])

\* json.dumps(data, indent=2, sort_keys=True): the members of the top-level
\* object in sorted key order; a None value is written as null
SortedKeys == <<"load_average", "memory", "platform", "process", "timestamp">>

JsonValue(v) ==
    IF v = None THEN [literal |-> "null"] ELSE [literal |-> "value", of |-> v]

to_json(data) ==
    LET keys == SelectSeq(SortedKeys, LAMBDA k : k \in DOMAIN data)
    IN [i \in 1..Len(keys) |-> [key |-> keys[i], value |-> JsonValue(data[keys[i]])]]

\* ------------------------------------------------------------ hosts (inputs)
Missing == [exists |-> FALSE, open |-> "FileNotFoundError", text |-> <<>>]

Unreadable ==
    {[exists |-> TRUE, open |-> o, text |-> <<>>] : o \in OpenOutcomes \ {"ok"}}

TextFile(text) == [exists |-> TRUE, open |-> "ok", text |-> text]

MeminfoFiles ==
    {Missing} \cup Unreadable
    \cup {TextFile(<<"M", ":", " ", "8", " ", "k", "B", "\n">>)}

StatusFiles ==
    {Missing} \cup Unreadable
    \cup {TextFile(<<"N", "a", "m", "e", ":", "\t", "p", "y", "\n">>),
          TextFile(<<"P", "i", "d", ":", "\t", "7", "\n", "p", "i", "d", ":",
                     "9", "\n">>)}

Hosts ==
    {[time |-> 100, pid |-> 7,
      times |-> [user |-> 1, system |-> 2, children_user |-> 3,
                 children_system |-> 4, elapsed |-> 5],
      platform |-> [system |-> "Linux", release |-> "6.1", version |-> "#1",
                    machine |-> "x86_64", python |-> "3.11.0"],
      load |-> <<0, 1, 2>>,
      getloadavg |-> g, meminfo |-> m, status |-> s] :
        g \in {"absent", "ok", "OSError"}, m \in MeminfoFiles, s \in StatusFiles}

\* ------------------------------------------------ ChatGPTTelemetryAnalyzer
HTTPErrorPrefix ==
    <<"C", "h", "a", "t", "G", "P", "T", " ", "A", "P", "I", " ", "r", "e",
      "t", "u", "r", "n", "e", "d", " ", "H", "T", "T", "P", " ">>

URLErrorPrefix ==
    <<"F", "a", "i", "l", "e", "d", " ", "t", "o", " ", "r", "e", "a", "c",
      "h", " ", "C", "h", "a", "t", "G", "P", "T", " ", "A", "P", "I", ":",
      " ">>

DigitChars == <<"0", "1", "2", "3", "4", "5", "6", "7", "8", "9">>

\* str(n) of a non-negative integer
RECURSIVE Digits(_)
Digits(n) ==
    IF n < 10 THEN <<DigitChars[n + 1]>>
    ELSE Digits(n \div 10) \o <<DigitChars[(n % 10) + 1]>>

\* the bytes an error body is made of here: two ASCII letters, a lone
\* continuation byte and a byte no UTF-8 sequence contains
Bytes == {97, 101, 128, 255}

AsciiChar(b) == CASE b = 97 -> "a" [] b = 101 -> "e"

\* bytes.decode("utf-8", "ignore"): a byte that starts no valid sequence is
\* dropped and decoding resumes at the next byte
RECURSIVE DecodeIgnore(_)
DecodeIgnore(bytes) ==
    IF bytes = <<>> THEN <<>>
    ELSE IF Head(bytes) < 128 THEN <<AsciiChar(Head(bytes))>> \o DecodeIgnore(Tail(bytes))
    ELSE DecodeIgnore(Tail(bytes))

HTTPErrorMessageNoCode(code, body) ==
    HTTPErrorPrefix \o <<":", " ">> \o DecodeIgnore(body)

\* f"ChatGPT API returned HTTP {error.code}: {error.read().decode('utf-8', 'ignore')}"
HTTPErrorMessage(code, body) ==
    HTTPErrorPrefix \o Digits(code) \o <<":", " ">> \o DecodeIgnore(body)

\* f"Failed to reach ChatGPT API: {error}"
URLErrorMessage(reason) == URLErrorPrefix \o reason

\* response.read().decode("utf-8") then json.loads(body)
DecodeBody(body) ==
    CASE body.kind = "invalid_utf8" -> Raised("UnicodeDecodeError", <<>>)
      [] body.kind = "not_json" -> Raised("JSONDecodeError", <<>>)
      [] OTHER -> Returned(body.value)

RequestsAfterRetry(n, outcome) ==
    IF outcome.kind = "timeout" THEN n + 2 ELSE n + 1

\* analyze() calls urlopen() once, whatever the exchange ends in
RequestsAfter(n, outcome) == n + 1

\* analyze(snapshot), given what the HTTP exchange ends in: HTTPError and
\* URLError are caught and re-raised as RuntimeError; a socket timeout after
\* the request is sent is neither, and the decoding of the body and
\* _extract_message run outside the try block
analyze(outcome) ==
    CASE outcome.kind = "http_error" ->
            Raised("RuntimeError", HTTPErrorMessage(outcome.code, outcome.body))
      [] outcome.kind = "url_error" ->
            Raised("RuntimeError", URLErrorMessage(outcome.reason))
      [] outcome.kind = "timeout" -> Raised("TimeoutError", <<>>)
      [] OTHER ->
            LET parsed == DecodeBody(outcome.body)
            IN IF parsed.kind = "raise" THEN parsed
               ELSE LET analysis == _extract_message(parsed.value)
                    IN IF analysis.kind = "raise" THEN analysis
                       ELSE Returned([analysis |-> analysis.value,
                                      raw_response |-> parsed.value])

\* ------------------------------------------- HTTP exchanges (inputs)
StatusCodes == {304, 401, 500}

ErrorBodies == UNION {[1..n -> Bytes] : n \in 0..MaxBodyLen}

Bodies ==
    {[kind |-> "invalid_utf8"], [kind |-> "not_json"]}
    \cup {[kind |-> "json", value |-> j] : j \in Responses}

\* connection-level failures urlopen() wraps in URLError
URLErrorReasons ==
    {<<"d", "n", "s">>, <<"r", "e", "f", "u", "s", "e", "d">>,
     <<"t", "i", "m", "e", "d", " ", "o", "u", "t">>}

Outcomes ==
    {[kind |-> "ok", body |-> b] : b \in Bodies}
    \cup {[kind |-> "http_error", code |-> c, body |-> b] :
            c \in StatusCodes, b \in ErrorBodies}
    \cup {[kind |-> "url_error", reason |-> r] : r \in URLErrorReasons}
    \cup {[kind |-> "timeout", phase |-> p] : p \in {"headers", "body"}}

\* ------------------------------------------------------------------- main
NoSnapshot == [t |-> "no_snapshot"]

NoExchange == [kind |-> "none"]

NoResult == [t |-> "no_result"]

NoExc == [kind |-> "none"]

NoExit == [t |-> "no_exit"]

\* bool(x) of an optional string
Truthy(x) == x.t = "str" /\ x.v # <<>>

ArgSets ==
    [collect_only : BOOLEAN, api_key : {None, Str(<<>>), Str(<<"k">>)}]

\* _parse_args: parser.error() exits with status 2
_parse_args ==
    /\ pc = "start"
    /\ IF ~args.collect_only /\ ~Truthy(args.api_key)
       THEN /\ pc' = "raised"
            /\ exc' = Raised("SystemExit", <<>>)
            /\ exit_code' = Num(2)
       ELSE /\ pc' = "collect"
            /\ UNCHANGED <<exc, exit_code>>
    /\ UNCHANGED <<args, host, snapshot, collects, requests, net, result, stdout>>
    /\ UNCHANGED <<parseVars, extractVars>>

\* snapshot = collector.collect()
main_collect ==
    /\ pc = "collect"
    /\ collects' = collects + 1
    /\ LET r == collect(host)
       IN IF r.kind = "raise"
          THEN /\ pc' = "raised"
               /\ exc' = r
               /\ UNCHANGED snapshot
          ELSE /\ pc' = "branch"
               /\ snapshot' = r.value
               /\ UNCHANGED exc
    /\ UNCHANGED <<args, host, requests, net, result, stdout, exit_code>>
    /\ UNCHANGED <<parseVars, extractVars>>

\* if args.collect_only: print(snapshot.to_json()); return 0
main_collect_only ==
    /\ pc = "branch"
    /\ args.collect_only
    /\ stdout' = Append(stdout, [json |-> to_json(snapshot)])
    /\ exit_code' = Num(0)
    /\ pc' = "done"
    /\ UNCHANGED <<args, host, snapshot, collects, requests, net, result, exc>>
    /\ UNCHANGED <<parseVars, extractVars>>

\* result = analyzer.analyze(snapshot)
main_analyze ==
    /\ pc = "branch"
    /\ ~args.collect_only
    /\ \E outcome \in Outcomes :
          /\ net' = outcome
          /\ requests' = RequestsAfter(requests, outcome)
          /\ LET r == analyze(outcome)
             IN IF r.kind = "raise"
                THEN /\ pc' = "raised"
                     /\ exc' = r
                     /\ UNCHANGED result
                ELSE /\ pc' = "analyzed"
                     /\ result' = r.value
                     /\ UNCHANGED exc
    /\ UNCHANGED <<args, host, snapshot, collects, stdout, exit_code>>
    /\ UNCHANGED <<parseVars, extractVars>>

\* print(result["analysis"]); return 0
main_print_analysis ==
    /\ pc = "analyzed"
    /\ stdout' = Append(stdout, [text |-> result.analysis])
    /\ exit_code' = Num(0)
    /\ pc' = "done"
    /\ UNCHANGED <<args, host, snapshot, collects, requests, net, result, exc>>
    /\ UNCHANGED <<parseVars, extractVars>>

IdleMain ==
    /\ pc = "idle"
    /\ args = NotRun
    /\ host = NotRun
    /\ snapshot = NoSnapshot
    /\ collects = 0
    /\ requests = 0
    /\ net = NoExchange
    /\ result = NoResult
    /\ exc = NoExc
    /\ stdout = <<>>
    /\ exit_code = NoExit

IdleParse == kv_file = Missing /\ kv_parsed = NotRun

IdleExtract == response_json = None /\ extracted = NotRun

Init ==
    /\ pc = "start"
    /\ args \in ArgSets
    /\ host \in Hosts
    /\ snapshot = NoSnapshot
    /\ collects = 0
    /\ requests = 0
    /\ net = NoExchange
    /\ result = NoResult
    /\ exc = NoExc
    /\ stdout = <<>>
    /\ exit_code = NoExit
    /\ IdleParse
    /\ IdleExtract

Next == _parse_args \/ main_collect \/ main_collect_only \/ main_analyze \/ main_print_analysis

Spec == Init /\ [][Next]_vars

\* ------------------------------------- _parse_key_value_file on its own
Alphabet == {" ", ":", "a", "\n"}

Texts == UNION {[1..n -> Alphabet] : n \in 0..MaxFileLen}

KeyValueFiles == {Missing} \cup Unreadable \cup {TextFile(t) : t \in Texts}

InitParse ==
    /\ IdleMain
    /\ IdleExtract
    /\ kv_file \in KeyValueFiles
    /\ kv_parsed = NotRun

ParseFile ==
    /\ kv_parsed = NotRun
    /\ kv_parsed' = _parse_key_value_file(kv_file)
    /\ UNCHANGED <<kv_file, mainVars, extractVars>>

NextParse == ParseFile

SpecParse == InitParse /\ [][NextParse]_vars

\* ------------------------------------------- _extract_message on its own
InitExtract ==
    /\ IdleMain
    /\ IdleParse
    /\ response_json \in Responses
    /\ extracted = NotRun

Extract ==
    /\ extracted = NotRun
    /\ extracted' = _extract_message(response_json)
    /\ UNCHANGED <<response_json, mainVars, parseVars>>

NextExtract == Extract

SpecExtract == InitExtract /\ [][NextExtract]_vars

\* ================================================================ claims

\* C1: on a host without the load-average facility, the snapshot collect()
\* returns, and its to_json() output, have no load_average key at all.
C1_NoLoadAverageKey ==
    (snapshot # NoSnapshot /\ host.getloadavg = "absent") =>
        /\ "load_average" \notin DOMAIN snapshot
        /\ \A i \in DOMAIN to_json(snapshot) : to_json(snapshot)[i].key # "load_average"

\* a choice whose message.content is a non-empty string
HasText(choice) ==
    /\ choice.t = "obj"
    /\ "message" \in DOMAIN choice.v
    /\ choice.v["message"].t = "obj"
    /\ "content" \in DOMAIN choice.v["message"].v
    /\ choice.v["message"].v["content"].t = "str"
    /\ choice.v["message"].v["content"].v # <<>>

\* t is s without its leading and trailing whitespace
IsTrim(t, s) ==
    \E a \in 1..(Len(s) + 1), b \in 0..Len(s) :
        /\ t = SubSeq(s, a, b)
        /\ \A i \in 1..(a - 1) : IsSpace(s[i])
        /\ \A i \in (b + 1)..Len(s) : IsSpace(s[i])
        /\ t # <<>> => (~IsSpace(t[1]) /\ ~IsSpace(t[Len(t)]))

\* C2: when choices is a list, _extract_message returns the trimmed content
\* of the first choice whose message.content is a non-empty string, earlier
\* choices without one being skipped, and the empty string when there is none.
C2_FirstNonEmptyContent ==
    (/\ extracted # NotRun
     /\ response_json.t = "obj"
     /\ "choices" \in DOMAIN response_json.v
     /\ response_json.v["choices"].t = "list") =>
        LET list == response_json.v["choices"].v
            texts == {i \in 1..Len(list) : HasText(list[i])}
        IN /\ extracted.kind = "return"
           /\ texts = {} => extracted.value = <<>>
           /\ texts # {} =>
                LET first == CHOOSE i \in texts : \A j \in texts : i <= j
                IN IsTrim(extracted.value, list[first].v["message"].v["content"].v)

\* C3: every failure of analyze()'s HTTP exchange reaches the caller as a
\* RuntimeError; no other exception type escapes analyze().
C3_SingleErrorKind ==
    (requests > 0 /\ pc = "raised") => exc.exc = "RuntimeError"

\* C4: collect() is total: whatever the sub-collectors run into, it returns
\* a snapshot and no error reaches the caller.
C4_CollectTotal ==
    collects > 0 => snapshot # NoSnapshot

\* C5: for every successfully JSON-decoded response body, whatever its
\* shape, analyze() raises no error and returns a result.
C5_DecodedBodyNeverRaises ==
    (net.kind = "ok" /\ net.body.kind = "json") =>
        /\ pc # "raised"
        /\ result # NoResult
        /\ result.raw_response = net.body.value

\* C6: a run with the collect-only flag and no API key passes validation,
\* prints the snapshot JSON, returns 0 and issues no network request.
C6_CollectOnlyWithoutKey ==
    (args.collect_only /\ ~Truthy(args.api_key)) =>
        /\ requests = 0
        /\ pc # "raised"
        /\ pc = "done" =>
              (exit_code = Num(0) /\ stdout = <<[json |-> to_json(snapshot)]>>)

DecimalValue(text) ==
    IF text = <<>> \/ \E i \in 1..Len(text) : \A d \in 1..10 : DigitChars[d] # text[i]
    THEN -1
    ELSE LET digit(c) == (CHOOSE d \in 1..10 : DigitChars[d] = c) - 1
             RECURSIVE value(_)
             value(t) == IF t = <<>> THEN 0
                         ELSE 10 * value(SubSeq(t, 1, Len(t) - 1)) + digit(t[Len(t)])
         IN value(text)

Contains(text, part) ==
    \E i \in 0..(Len(text) - Len(part)) : SubSeq(text, i + 1, i + Len(part)) = part

\* the characters of the bytes that are valid text
ValidText(bytes) ==
    LET valid == SelectSeq(bytes, LAMBDA b : b < 128)
    IN [i \in 1..Len(valid) |-> AsciiChar(valid[i])]

Qualifies(line) ==
    /\ \E i \in 1..Len(line) : ~IsSpace(line[i])
    /\ \E i \in 1..Len(line) : line[i] = ":"

\* k is the trimmed text before the first colon of line
IsKeyOf(k, line) ==
    \E p \in 1..Len(line) :
        /\ line[p] = ":"
        /\ \A j \in 1..(p - 1) : line[j] # ":"
        /\ IsTrim(k, SubSeq(line, 1, p - 1))

\* v is the trimmed text after the first colon of line, later colons kept
IsValueOf(v, line) ==
    \E p \in 1..Len(line) :
        /\ line[p] = ":"
        /\ \A j \in 1..(p - 1) : line[j] # ":"
        /\ IsTrim(v, SubSeq(line, p + 1, Len(line)))

\* C9 as stated: blank lines and lines without a colon are ignored and every
\* other line is one entry, key and value trimmed around the first colon.
C9_EveryLineAnEntry ==
    (kv_parsed # NotRun /\ kv_file.exists /\ kv_file.open = "ok") =>
        LET lines == FileLines(kv_file.text, <<>>)
            parsed == kv_parsed.value
        IN /\ kv_parsed.kind = "return"
           /\ \A i \in 1..Len(lines) :
                Qualifies(lines[i]) =>
                    \E k \in DOMAIN parsed :
                        /\ IsKeyOf(k, lines[i])
                        /\ parsed[k].t = "str"
                        /\ IsValueOf(parsed[k].v, lines[i])
           /\ \A k \in DOMAIN parsed :
                \E i \in 1..Len(lines) : Qualifies(lines[i]) /\ IsKeyOf(k, lines[i])

\* C9 as amended: the keys are those of the non-blank lines with a colon,
\* and each key holds the string value of the last such line with that key.
C9_LastLineOfAKeyWins ==
    (kv_parsed # NotRun /\ kv_file.exists /\ kv_file.open = "ok") =>
        LET lines == FileLines(kv_file.text, <<>>)
            parsed == kv_parsed.value
            kept(k) == {i \in 1..Len(lines) : Qualifies(lines[i]) /\ IsKeyOf(k, lines[i])}
        IN /\ kv_parsed.kind = "return"
           /\ \A i \in 1..Len(lines) :
                Qualifies(lines[i]) => \E k \in DOMAIN parsed : IsKeyOf(k, lines[i])
           /\ \A k \in DOMAIN parsed :
                /\ kept(k) # {}
                /\ parsed[k].t = "str"
                /\ LET last == CHOOSE i \in kept(k) : \A j \in kept(k) : j <= i
                   IN IsValueOf(parsed[k].v, lines[last])

C9_Witness ==
    /\ kv_parsed # NotRun
    /\ kv_file = TextFile(<<"a", ":", ":", "\n", "a", ":">>)
    /\ kv_parsed = Returned(<<"a">> :> Str(<<>>))

\* C10: the process section holds the six fixed fields with the numeric
\* values read from the OS, whatever the status file contains.
C10_FixedFieldsKept ==
    snapshot # NoSnapshot =>
        LET process == snapshot.process.v
        IN /\ K_pid \in DOMAIN process /\ process[K_pid] = Num(host.pid)
           /\ K_cpu_time_user \in DOMAIN process
           /\ process[K_cpu_time_user] = Num(host.times.user)
           /\ K_cpu_time_system \in DOMAIN process
           /\ process[K_cpu_time_system] = Num(host.times.system)
           /\ K_cpu_time_children_user \in DOMAIN process
           /\ process[K_cpu_time_children_user] = Num(host.times.children_user)
           /\ K_cpu_time_children_system \in DOMAIN process
           /\ process[K_cpu_time_children_system] = Num(host.times.children_system)
           /\ K_elapsed \in DOMAIN process
           /\ process[K_elapsed] = Num(host.times.elapsed)

====
